---- MODULE Spec2Model ----
(***************************************************************************)
(* State-machine model of lib/Bluez.js (node-bluez): the adapter index,    *)
(* the address index, the path index, the handle resolvers getAdapter and  *)
(* getDevice, and the ObjectManager handlers onInterfacesAdded and         *)
(* onInterfaceRemoved.  Every handler is an async function: it runs        *)
(* atomically up to an await on getInterface (a transport round trip) and  *)
(* is resumed later, so handlers interleave exactly at those awaits.  An   *)
(* await on an already settled promise (the return of getDevice) resumes   *)
(* in the same macrotask and is not an interleaving point.                 *)
(*                                                                         *)
(* Strings are sequences of tokens.  "/org/bluez/" is the token BZ, "/"    *)
(* and ":" are delimiter tokens, every other token is a run of \w          *)
(* characters ("_" is a \w character of its own).                          *)
(***************************************************************************)
EXTENDS Integers, Sequences, FiniteSets, TLC

\* ------------------------------------------------------------------ bounds
\* Operations (notifications delivered plus resolver calls started) per run.
MaxOps == 4
\* Deliveries of one and the same InterfacesAdded notification per run.
MaxDeliver == 2
\* Transport binds (getInterface) that fail per run.
MaxFail == 1

\* ----------------------------------------------------------------- strings
BZ == "/org/bluez/"

WordTok == {"hci0", "hci1", "dev", "service1", "char1", "desc1", "a", "b", "c", "d", "_"}

\* No value: undefined (an absent capture group, an absent property).
Undef == <<>>

\* String.prototype.replace(/from/g, to) on a token string.
Replace(s, from, to) == [i \in 1..Len(s) |-> IF s[i] = from THEN to ELSE s[i]]

\* \w+ : a non-empty run of word tokens.
IsWord(s) == Len(s) > 0 /\ \A i \in 1..Len(s) : s[i] \in WordTok

\* Index of the first "/" after the prefix, 0 when there is none.
FirstSlash(s) ==
    IF \E j \in 2..Len(s) : s[j] = "/"
    THEN CHOOSE j \in 2..Len(s) : s[j] = "/" /\ \A i \in 2..(j - 1) : s[i] # "/"
    ELSE 0

\* dev.match(new RegExp("^/org/bluez/(\\w+)$"))
MatchAdapter(s) ==
    IF Len(s) >= 2 /\ s[1] = BZ /\ IsWord(SubSeq(s, 2, Len(s)))
    THEN [ok |-> TRUE, g1 |-> SubSeq(s, 2, Len(s))]
    ELSE [ok |-> FALSE, g1 |-> Undef]

\* address.match(new RegExp("^/org/bluez/(\\w+)/dev_(\\w+)$"))
MatchDevice(s) ==
    LET j == FirstSlash(s) IN
    IF /\ Len(s) >= 1 /\ s[1] = BZ /\ j > 0
       /\ IsWord(SubSeq(s, 2, j - 1))
       /\ Len(s) >= j + 3 /\ s[j + 1] = "dev" /\ s[j + 2] = "_"
       /\ IsWord(SubSeq(s, j + 3, Len(s)))
    THEN [ok |-> TRUE, g1 |-> SubSeq(s, 2, j - 1), g2 |-> SubSeq(s, j + 3, Len(s))]
    ELSE [ok |-> FALSE, g1 |-> Undef, g2 |-> Undef]

\* path.match(new RegExp("^/org/bluez/(\\w+)(?:/dev_(\\w+))?$")):
\* ok = FALSE is the null result, g2 = Undef an optional group that took no part.
MatchRemoved(s) ==
    IF MatchAdapter(s).ok
    THEN [ok |-> TRUE, g1 |-> MatchAdapter(s).g1, g2 |-> Undef]
    ELSE MatchDevice(s)

\* `/org/bluez/hci0/dev_${original}`
PropsPath(original) == <<BZ, "hci0", "/", "dev", "_">> \o original

\* '/org/bluez/' + dev
DefaultAdapterPath(dev) == <<BZ>> \o dev

\* --------------------------------------------------- the remote object tree
AddrA == <<"a", ":", "b">>
AddrB == <<"c", ":", "d">>
PathHci0 == <<BZ, "hci0">>
PathDev1 == <<BZ, "hci0", "/", "dev", "_", "a", "_", "b">>
PathDev2 == <<BZ, "hci1", "/", "dev", "_", "a", "_", "b">>
PathDevB == <<BZ, "hci0", "/", "dev", "_", "c", "_", "d">>
PathSvc1 == PathDev1 \o <<"/", "service1">>
PathChr1 == PathSvc1 \o <<"/", "char1">>
PathDsc1 == PathChr1 \o <<"/", "desc1">>

Adapter1 == "org.bluez.Adapter1"
Device1 == "org.bluez.Device1"
GattService1 == "org.bluez.GattService1"
GattCharacteristic1 == "org.bluez.GattCharacteristic1"
GattDescriptor1 == "org.bluez.GattDescriptor1"

NoProps == [Address |-> Undef, Device |-> Undef, Service |-> Undef,
            Characteristic |-> Undef, UUID |-> ""]

\* InterfacesAdded(path, interfaces): the notifications the service can send,
\* by name.  dev2 announces the address of dev1 at another adapter's path, devB
\* a second device.
AddedNotifs ==
    [ ad0  |-> [path |-> PathHci0, ifaces |-> {Adapter1}, props |-> NoProps],
      dev1 |-> [path |-> PathDev1, ifaces |-> {Device1},
                props |-> [NoProps EXCEPT !.Address = AddrA]],
      dev2 |-> [path |-> PathDev2, ifaces |-> {Device1},
                props |-> [NoProps EXCEPT !.Address = AddrA]],
      svc1 |-> [path |-> PathSvc1, ifaces |-> {GattService1},
                props |-> [NoProps EXCEPT !.Device = PathDev1, !.UUID = "us"]],
      chr1 |-> [path |-> PathChr1, ifaces |-> {GattCharacteristic1},
                props |-> [NoProps EXCEPT !.Service = PathSvc1, !.UUID = "uc"]],
      dsc1 |-> [path |-> PathDsc1, ifaces |-> {GattDescriptor1},
                props |-> [NoProps EXCEPT !.Characteristic = PathChr1, !.UUID = "ud"]],
      devB |-> [path |-> PathDevB, ifaces |-> {Device1},
                props |-> [NoProps EXCEPT !.Address = AddrB]] ]

\* The notifications of the resolver scenarios: the address AddrB stays unannounced.
AddedNames == {"ad0", "dev1", "dev2", "svc1", "chr1", "dsc1"}

\* InterfacesRemoved(path, interfaces), by name: a device and an adapter at
\* their paths, the Device capability at an adapter path and at a service path,
\* the Adapter capability at a device path, and the GATT capabilities.
RemovedNotifs ==
    [ rdev1   |-> [path |-> PathDev1, ifaces |-> {Device1}],
      rad0    |-> [path |-> PathHci0, ifaces |-> {Adapter1}],
      rbad    |-> [path |-> PathHci0, ifaces |-> {Device1}],
      rdevSvc |-> [path |-> PathSvc1, ifaces |-> {Device1}],
      radDev  |-> [path |-> PathDev1, ifaces |-> {Adapter1}],
      rsvc1   |-> [path |-> PathSvc1, ifaces |-> {GattService1}],
      rchr1   |-> [path |-> PathChr1, ifaces |-> {GattCharacteristic1}],
      rdsc1   |-> [path |-> PathDsc1, ifaces |-> {GattDescriptor1}] ]

\* The removals of the resolver scenarios.
RemovedNames == {"rdev1", "rad0", "rbad"}

\* The notifications of the removal scenarios: two devices, the GATT hierarchy
\* of the first, and every removal.
RemovalAdded == {"dev1", "devB", "svc1", "chr1", "dsc1"}
RemovalRemoved == DOMAIN RemovedNotifs

\* One adapter, one device, one service, one characteristic, one descriptor.
HierarchyNames == {"ad0", "dev1", "svc1", "chr1", "dsc1"}

\* Application callers of the resolvers and the identifiers they pass.
Callers == {"c1", "c2"}
GetDeviceArgs == {AddrA, Replace(AddrA, ":", "_"), PathDev1, AddrB}
GetAdapterArgs == {<<"hci0">>, PathHci0}

\* ------------------------------------------------------------------- state
VARIABLES
    adapter,        \* this.adapter: adapter id -> entry (a path string or an Adapter)
    adapter_props,  \* this.adapter_props: the last Adapter1 property bag, by notification
    devices,        \* this.devices: address -> entry (a path string or a Device)
    _path,          \* this._path: path -> entity (Service, Characteristic, placeholder)
    devObjs,        \* the Device objects: id -> [iface, changed, services]
    ents,           \* the objects _path and the child maps refer to
    maps,           \* the child maps (characteristics / descriptors objects), by identity
    nDev,           \* Device objects constructed so far
    nAd,            \* Adapter objects constructed so far
    tasks,          \* suspended onInterfacesAdded invocations
    calls,          \* the application callers' getAdapter / getDevice invocations
    emitted,        \* the events emitted, in order
    cnt,            \* deliveries of each InterfacesAdded notification
    ops,            \* operations started
    fails,          \* binds that failed
    okDone,         \* InterfacesAdded notifications one of whose handlers ran to its end
    ann,            \* per address: the announcement history of its Device capability
    live,           \* device paths announced and not removed since
    replays,        \* 'device' events emitted for a path that was live already
    returned,       \* per address: Device handles getDevice returned while it was announced
    removals,       \* InterfacesRemoved notifications delivered
    scen,           \* the prefix of the orphaned-service scenario delivered so far
    idem            \* a notification applied alone, once or twice, from a quiescent state

vars == <<adapter, adapter_props, devices, _path, devObjs, ents, maps, nDev, nAd,
          tasks, calls, emitted, cnt, ops, fails, okDone, ann, live, replays,
          returned, removals, scen, idem>>

\* The registry and its heap, as one value the handlers' bodies transform.
Reg == [devices |-> devices, _path |-> _path, devObjs |-> devObjs,
        ents |-> ents, maps |-> maps, nDev |-> nDev]

\* obj[k] = v on a JS object.
Put(f, k, v) == [x \in (DOMAIN f) \cup {k} |-> IF x = k THEN v ELSE f[x]]

\* delete obj[k]
Del(f, k) == [x \in (DOMAIN f) \ {k} |-> f[x]]

\* An index entry holding a path string / holding a handle object.
StrEntry(p) == [t |-> "str", v |-> p, id |-> 0]
ObjEntry(i) == [t |-> "obj", v |-> Undef, id |-> i]

\* Identity of the object a handler invocation (notification n, delivery k) builds.
Oid(n, k, role) == [by |-> n, k |-> k, role |-> role]
NoMap == Oid("", 0, "")

\* What a resolver call gives its caller.
Handle(i) == [t |-> "handle", id |-> i, err |-> ""]
Error(msg) == [t |-> "error", id |-> 0, err |-> msg]
NotFoundDevice == "Device not found"
NotFoundAdapter == "Adapter not found"
BindError == "getInterface failed"

\* --------------------------------------------------------------- getDevice
\* Lines 70-73: original, and the normalised address.
GetDeviceOriginal(arg) == Replace(arg, ":", "_")

GetDeviceAddress(arg) ==
    LET m == MatchDevice(arg) IN
    Replace(IF m.ok THEN m.g2 ELSE arg, "_", ":")

\* The locals of a getDevice call suspended on its binds.
NoFrame == [address |-> Undef, original |-> Undef, iface |-> Undef]

\* GetDeviceEnter without the throw of line 78: a call for an address the index
\* does not hold suspends like one that found a path.
GetDeviceEnterWaits(devs, arg) ==
    LET address == GetDeviceAddress(arg) IN
    IF address \in DOMAIN devs /\ devs[address].t # "str"
    THEN [k |-> "return", h |-> devs[address].id, frame |-> NoFrame]
    ELSE [k |-> "await", h |-> 0,
          frame |-> [address |-> address, original |-> GetDeviceOriginal(arg),
                     iface |-> IF address \in DOMAIN devs THEN devs[address].v ELSE Undef]]

\* Lines 74-79, up to the first await: the handle, the throw, or the frame of
\* the suspended call (interface_ is requested at the path the index holds now).
GetDeviceEnter(devs, arg) ==
    LET address == GetDeviceAddress(arg) IN
    IF address \in DOMAIN devs /\ devs[address].t # "str"
    THEN [k |-> "return", h |-> devs[address].id, frame |-> NoFrame]
    ELSE IF address \notin DOMAIN devs
    THEN [k |-> "throw", h |-> 0, frame |-> NoFrame]
    ELSE [k |-> "await", h |-> 0,
          frame |-> [address |-> address, original |-> GetDeviceOriginal(arg),
                     iface |-> devs[address].v]]

\* new Device(interface_, changed_): the handle starts with no service.
NewDevice(iface, changed) == [iface |-> iface, changed |-> changed, services |-> <<>>]

\* Lines 83-88, after both awaits: the second check, else a new Device installed.
GetDeviceInstall(R, frame) ==
    IF frame.address \in DOMAIN R.devices /\ R.devices[frame.address].t # "str"
    THEN [R |-> R, h |-> R.devices[frame.address].id]
    ELSE LET h == R.nDev + 1 IN
         [R |-> [R EXCEPT !.nDev = h,
                          !.devObjs = Put(@, h, NewDevice(frame.iface,
                                                          PropsPath(frame.original))),
                          !.devices = Put(@, frame.address, ObjEntry(h))],
          h |-> h]

\* --------------------------------------------------------------- getAdapter
\* Lines 47-48: the adapter id.
GetAdapterDev(arg) == IF MatchAdapter(arg).ok THEN MatchAdapter(arg).g1 ELSE arg

\* Lines 50-59, up to the await: the handle, or the path to bind.
GetAdapterEnter(ads, arg) ==
    LET dev == GetAdapterDev(arg) IN
    IF dev \in DOMAIN ads /\ ads[dev].t # "str"
    THEN [k |-> "return", h |-> ads[dev].id, path |-> Undef]
    ELSE [k |-> "await", h |-> 0,
          path |-> IF dev \in DOMAIN ads THEN ads[dev].v ELSE DefaultAdapterPath(dev)]

\* Lines 65-66: a new Adapter installed, whatever the index holds by now.
GetAdapterInstall(ads, n, dev) == Put(ads, dev, ObjEntry(n + 1))

\* ------------------------------------------------------- onInterfacesAdded
\* ServiceChars without lines 284-287: the Service keeps the object of its own.
ServiceCharsOwn(R, path, sid) == sid

\* ServiceChars copying from a placeholder only, not from a Service.
ServiceCharsFromPlaceholder(R, path, sid) ==
    IF path \in DOMAIN R._path /\ R.ents[R._path[path]].kind = "placeholder"
    THEN R.ents[R._path[path]].characteristics
    ELSE sid

\* Lines 280-287: the characteristics object of the new Service: the one the
\* entry already at its path holds, else the object the Service was built with
\* (named after the Service).
ServiceChars(R, path, sid) ==
    IF path \in DOMAIN R._path
    THEN IF R.ents[R._path[path]].characteristics # NoMap
         THEN R.ents[R._path[path]].characteristics
         ELSE sid
    ELSE sid

\* Lines 280-290 after the awaits: the Service attached to the Device h.
AttachService(R, n, k, h) ==
    LET nt == AddedNotifs[n]
        sid == Oid(n, k, "Service")
        cm == ServiceChars(R, nt.path, sid)
    IN  [R EXCEPT
           !.ents = Put(@, sid, [kind |-> "Service", characteristics |-> cm,
                                 descriptors |-> NoMap]),
           !.maps = IF cm = sid THEN Put(@, sid, <<>>) ELSE @,
           !.devObjs = [@ EXCEPT ![h].services = Put(@, nt.props.UUID, sid)],
           !._path = Put(@, nt.path, sid)]

\* Lines 299-302: the descriptors object of the new Characteristic.
CharacteristicDescs(R, path, cid) ==
    IF path \in DOMAIN R._path
    THEN IF R.ents[R._path[path]].descriptors # NoMap
         THEN R.ents[R._path[path]].descriptors
         ELSE cid
    ELSE cid

\* Lines 304-307: the entry at the owner's path, a placeholder when there is none.
WithServicePlaceholder(R, owner, pid) ==
    IF owner \in DOMAIN R._path
    THEN R
    ELSE [R EXCEPT
            !.ents = Put(@, pid, [kind |-> "placeholder", characteristics |-> pid,
                                  descriptors |-> NoMap]),
            !.maps = Put(@, pid, <<>>),
            !._path = Put(@, owner, pid)]

\* Lines 297-309 after the awaits.  ok = FALSE: line 308 throws, the entry at
\* the owner's path has no characteristics object.
AttachCharacteristic(R, n, k) ==
    LET nt == AddedNotifs[n]
        cid == Oid(n, k, "Characteristic")
        dm == CharacteristicDescs(R, nt.path, cid)
        R1 == [R EXCEPT
                 !.ents = Put(@, cid, [kind |-> "Characteristic",
                                       characteristics |-> NoMap, descriptors |-> dm]),
                 !.maps = IF dm = cid THEN Put(@, cid, <<>>) ELSE @]
        R2 == WithServicePlaceholder(R1, nt.props.Service, Oid(n, k, "phService"))
        cm == R2.ents[R2._path[nt.props.Service]].characteristics
    IN  IF cm = NoMap
        THEN [ok |-> FALSE, R |-> R2]
        ELSE [ok |-> TRUE,
              R |-> [R2 EXCEPT !.maps = [@ EXCEPT ![cm] = Put(@, nt.props.UUID, cid)],
                               !._path = Put(@, nt.path, cid)]]

\* Lines 317-320: the entry at the owner's path, a placeholder when there is none.
WithCharacteristicPlaceholder(R, owner, pid) ==
    IF owner \in DOMAIN R._path
    THEN R
    ELSE [R EXCEPT
            !.ents = Put(@, pid, [kind |-> "placeholder", characteristics |-> NoMap,
                                  descriptors |-> pid]),
            !.maps = Put(@, pid, <<>>),
            !._path = Put(@, owner, pid)]

\* Lines 315-321 after the await.  ok = FALSE: line 321 throws.
AttachDescriptor(R, n, k) ==
    LET nt == AddedNotifs[n]
        did == Oid(n, k, "Descriptor")
        R1 == [R EXCEPT !.ents = Put(@, did, [kind |-> "Descriptor",
                                              characteristics |-> NoMap,
                                              descriptors |-> NoMap])]
        R2 == WithCharacteristicPlaceholder(R1, nt.props.Characteristic,
                                            Oid(n, k, "phCharacteristic"))
        dm == R2.ents[R2._path[nt.props.Characteristic]].descriptors
    IN  IF dm = NoMap
        THEN [ok |-> FALSE, R |-> R2]
        ELSE [ok |-> TRUE,
              R |-> [R2 EXCEPT !.maps = [@ EXCEPT ![dm] = Put(@, nt.props.UUID, did)]]]

\* The await a handler reaches next, given the section it has just left:
\* line 279, 295 or 314, or the end of the handler.
NextAwait(n, after) ==
    LET I == AddedNotifs[n].ifaces IN
    IF after = "start" /\ GattService1 \in I THEN "s279"
    ELSE IF after \in {"start", "service"} /\ GattCharacteristic1 \in I THEN "c295"
    ELSE IF GattDescriptor1 \in I THEN "d314"
    ELSE "end"

\* One resumption of a suspended onInterfacesAdded invocation whose pending
\* bind succeeded: the handler runs on to its next await, its end, or a throw.
\* h is the Device a getDevice call of the handler returned on the way, 0 if none.
ResumeAdded(R, n, k, task) ==
    LET nt == AddedNotifs[n]
        go(R2, pc, frame, h) == [R |-> R2, pc |-> pc, frame |-> frame, h |-> h]
    IN
    CASE task.pc = "s279" ->
            LET e == GetDeviceEnter(R.devices, nt.props.Device) IN
            IF e.k = "return"
            THEN go(AttachService(R, n, k, e.h), NextAwait(n, "service"), NoFrame, e.h)
            ELSE IF e.k = "throw"
            THEN go(R, "throw", NoFrame, 0)
            ELSE go(R, "gd79", e.frame, 0)
      [] task.pc = "gd79" -> go(R, "gd81", task.frame, 0)
      [] task.pc = "gd81" ->
            LET i == GetDeviceInstall(R, task.frame) IN
            go(AttachService(i.R, n, k, i.h), NextAwait(n, "service"), NoFrame, i.h)
      [] task.pc = "c295" -> go(R, "c296", NoFrame, 0)
      [] task.pc = "c296" ->
            LET a == AttachCharacteristic(R, n, k) IN
            go(a.R, IF a.ok THEN NextAwait(n, "characteristic") ELSE "throw", NoFrame, 0)
      [] task.pc = "d314" ->
            LET a == AttachDescriptor(R, n, k) IN
            go(a.R, IF a.ok THEN "end" ELSE "throw", NoFrame, 0)

\* EmitDevice for an emitter that queues the new event ahead of the earlier ones.
EmitDeviceFront(em, a, n) == <<[name |-> "device", arg |-> a, props |-> n]>> \o em

\* Line 274: this.emit('device', props.Address, props), the listeners run at once.
EmitDevice(em, a, n) == Append(em, [name |-> "device", arg |-> a, props |-> n])

\* ------------------------------------------------------ onInterfaceRemoved
\* RemovedAddress without the replace of line 334.
RemovedAddressRaw(m) == m.g2

\* Line 334: the address a removed device path names.
RemovedAddress(m) == Replace(m.g2, "_", ":")

\* OnInterfaceRemoved for a handler that empties the address index when a
\* device is removed.
OnInterfaceRemovedClears(devs, ads, path, ifaces) ==
    LET m == MatchRemoved(path)
        devThrows == Device1 \in ifaces /\ ~m.ok
        devs2 == IF Device1 \in ifaces /\ m.ok /\ m.g2 # Undef THEN <<>> ELSE devs
        ev1 == IF Device1 \in ifaces /\ m.ok /\ m.g2 = Undef
               THEN <<[name |-> "error", arg |-> <<"Removed Device with unknown path">>,
                       props |-> ""]>>
               ELSE <<>>
        ads2 == IF ~devThrows /\ Adapter1 \in ifaces /\ m.ok /\ m.g1 # Undef
                THEN Del(ads, m.g1) ELSE ads
    IN  [devices |-> devs2, adapter |-> ads2, events |-> ev1,
         thrown |-> devThrows \/ (Adapter1 \in ifaces /\ ~m.ok)]

\* Lines 331-348 for InterfacesRemoved(path, ifaces).  thrown: match is null and
\* match[2] or match[1] is read, a TypeError that ends the handler.
OnInterfaceRemoved(devs, ads, path, ifaces) ==
    LET m == MatchRemoved(path)
        devThrows == Device1 \in ifaces /\ ~m.ok
        devs2 == IF Device1 \in ifaces /\ m.ok /\ m.g2 # Undef
                 THEN Del(devs, RemovedAddress(m)) ELSE devs
        ev1 == IF Device1 \in ifaces /\ m.ok /\ m.g2 = Undef
               THEN <<[name |-> "error", arg |-> <<"Removed Device with unknown path">>,
                       props |-> ""]>>
               ELSE <<>>
        adThrows == ~devThrows /\ Adapter1 \in ifaces /\ ~m.ok
        ads2 == IF ~devThrows /\ Adapter1 \in ifaces /\ m.ok /\ m.g1 # Undef
                THEN Del(ads, m.g1) ELSE ads
        ev2 == IF ~devThrows /\ Adapter1 \in ifaces /\ m.ok /\ m.g1 = Undef
               THEN <<[name |-> "error", arg |-> <<"Removed Adapter with unknown path">>,
                       props |-> ""]>>
               ELSE <<>>
    IN  [devices |-> devs2, adapter |-> ads2, events |-> ev1 \o ev2,
         thrown |-> devThrows \/ adThrows]

\* ------------------------------------------------- observation of the state
\* The registry up to object identity: each index entry with the tree of
\* children reachable from it.
RECURSIVE Tree(_, _)
Tree(R, e) ==
    LET cm == R.ents[e].characteristics
        dm == R.ents[e].descriptors
    IN  [kind |-> R.ents[e].kind,
         hasChars |-> cm # NoMap,
         chars |-> IF cm = NoMap THEN <<>>
                   ELSE [u \in DOMAIN R.maps[cm] |-> Tree(R, R.maps[cm][u])],
         hasDescs |-> dm # NoMap,
         descs |-> IF dm = NoMap THEN <<>>
                   ELSE [u \in DOMAIN R.maps[dm] |-> Tree(R, R.maps[dm][u])]]

View(R) ==
    [devices |->
        [a \in DOMAIN R.devices |->
            IF R.devices[a].t = "str"
            THEN [t |-> "str", v |-> R.devices[a].v, iface |-> Undef, changed |-> Undef,
                  services |-> <<>>]
            ELSE LET d == R.devObjs[R.devices[a].id] IN
                 [t |-> "obj", v |-> Undef, iface |-> d.iface, changed |-> d.changed,
                  services |-> [u \in DOMAIN d.services |-> Tree(R, d.services[u])]]],
     _path |-> [p \in DOMAIN R._path |-> Tree(R, R._path[p])]]

\* --------------------------------------------------------- bookkeeping
KnownAddrs == {AddrA, AddrB}

NoAnn == [st |-> "never", path |-> Undef, old |-> Undef]

\* A caller's invocation: its position, its locals (frame for getDevice, dev and
\* path for getAdapter), its result, and what held when it started: the
\* announcement state of its address (annAtStart), whether the index held only
\* a path (onPath), and whether the other caller's call for the same identifier
\* was suspended on its binds (peer).  binds counts the getInterface calls it
\* has made; svcs are the services attached to its device when it started.
IdleCall == [pc |-> "idle", fn |-> "", arg |-> Undef, frame |-> NoFrame, dev |-> Undef,
             path |-> Undef, res |-> Error(""), annAtStart |-> NoAnn,
             onPath |-> FALSE, peer |-> FALSE, binds |-> 0, svcs |-> {}]

\* The UUIDs of the services a handler has attached to a Device of address a
\* (line 289), none of them and no device removed since.
AttachedServices(a) ==
    IF removals # {} THEN {}
    ELSE {AddedNotifs[n].props.UUID : n \in {x \in okDone :
            /\ GattService1 \in AddedNotifs[x].ifaces
            /\ GetDeviceAddress(AddedNotifs[x].props.Device) = a}}

\* Each caller makes one call; they are named in the order of their calls.
MayCall(c) ==
    /\ calls[c].pc = "idle"
    /\ c = "c2" => calls["c1"].pc # "idle"

Suspended(c) == calls[c].pc \in {"gd79", "gd81", "ga59"}

\* A getDevice resolution of address a is suspended on its binds.
InFlight(a) ==
    \/ \E c \in Callers : calls[c].pc \in {"gd79", "gd81"} /\ calls[c].frame.address = a
    \/ \E t \in DOMAIN tasks : tasks[t].pc \in {"gd79", "gd81"} /\ tasks[t].frame.address = a

\* No handler and no resolver call is suspended.
Quiescent == DOMAIN tasks = {} /\ \A c \in Callers : ~Suspended(c)

IdemNone == [stage |-> 0, n |-> "", view |-> <<>>]

SetReg(R) ==
    /\ devices' = R.devices
    /\ _path' = R._path
    /\ devObjs' = R.devObjs
    /\ ents' = R.ents
    /\ maps' = R.maps
    /\ nDev' = R.nDev

\* A getDevice call that returned the Device h for address a.
Returned(a, h) ==
    IF a \in KnownAddrs /\ ann[a].st = "yes"
    THEN [returned EXCEPT ![a] = @ \cup {h}]
    ELSE returned

Init ==
    /\ adapter = <<>>
    /\ adapter_props = ""
    /\ devices = <<>>
    /\ _path = <<>>
    /\ devObjs = <<>>
    /\ ents = <<>>
    /\ maps = <<>>
    /\ nDev = 0
    /\ nAd = 0
    /\ tasks = <<>>
    /\ calls = [c \in Callers |-> IdleCall]
    /\ emitted = <<>>
    /\ cnt = [n \in DOMAIN AddedNotifs |-> 0]
    /\ ops = 0
    /\ fails = 0
    /\ okDone = {}
    /\ ann = [a \in KnownAddrs |-> NoAnn]
    /\ live = {}
    /\ replays = 0
    /\ returned = [a \in KnownAddrs |-> {}]
    /\ removals = {}
    /\ scen = ""
    /\ idem = IdemNone

\* Progress through the scenario "service added, device added, characteristic
\* added" when notification x is delivered next.
ScenNext(x) ==
    IF scen = "" /\ x = "svc1" THEN "s"
    ELSE IF scen = "s" /\ x = "dev1" THEN "sd"
    ELSE IF scen = "sd" /\ x = "chr1" THEN "sdc"
    ELSE "off"

\* ------------------------------------------------------------------ actions
\* onInterfacesAdded(path, interfaces) is called: lines 262-275 run at once,
\* then the handler suspends on its first bind or ends.
OnInterfacesAdded(n) ==
    LET nt == AddedNotifs[n]
        k == cnt[n] + 1
        hasDev == Device1 \in nt.ifaces
        a == nt.props.Address
        pc0 == NextAwait(n, "start")
        R2 == IF hasDev THEN [Reg EXCEPT !.devices = Put(@, a, StrEntry(nt.path))] ELSE Reg
    IN
    /\ ops' = ops + 1
    /\ cnt' = [cnt EXCEPT ![n] = k]
    /\ adapter_props' = IF Adapter1 \in nt.ifaces THEN n ELSE adapter_props
    /\ SetReg(R2)
    /\ emitted' = IF hasDev THEN EmitDevice(emitted, a, n) ELSE emitted
    /\ tasks' = IF pc0 = "end" THEN tasks
                ELSE Put(tasks, [n |-> n, k |-> k], [pc |-> pc0, frame |-> NoFrame])
    /\ okDone' = IF pc0 = "end" THEN okDone \cup {n} ELSE okDone
    /\ ann' = IF hasDev
              THEN [ann EXCEPT ![a] =
                      [st |-> "yes", path |-> nt.path,
                       old |-> IF @.st # "never" /\ @.path # nt.path THEN @.path ELSE @.old]]
              ELSE ann
    /\ returned' = IF hasDev /\ ann[a].st # "yes" THEN [returned EXCEPT ![a] = {}]
                   ELSE returned
    /\ live' = IF hasDev THEN live \cup {nt.path} ELSE live
    /\ replays' = IF hasDev /\ nt.path \in live THEN replays + 1 ELSE replays
    /\ scen' = ScenNext(n)
    /\ idem' = IF ~Quiescent THEN IdemNone
               ELSE IF idem.stage = 2 /\ idem.n = n
               THEN [idem EXCEPT !.stage = IF pc0 = "end" THEN 4 ELSE 3]
               ELSE IF pc0 = "end" THEN [stage |-> 2, n |-> n, view |-> View(R2)]
               ELSE [stage |-> 1, n |-> n, view |-> <<>>]
    /\ UNCHANGED <<adapter, nAd, calls, fails, removals>>

\* The transport delivers an InterfacesAdded notification.
DeliverAdded(n) ==
    /\ ops < MaxOps
    /\ cnt[n] < MaxDeliver
    /\ OnInterfacesAdded(n)

\* The transport delivers a notification of the hierarchy, each one once.
DeliverOnce(n) ==
    /\ cnt[n] = 0
    /\ OnInterfacesAdded(n)

\* The bind a suspended onInterfacesAdded invocation awaits succeeds.
TaskBindOk(t) ==
    LET r == ResumeAdded(Reg, t.n, t.k, tasks[t])
        over == r.pc \in {"end", "throw"}
    IN
    /\ SetReg(r.R)
    /\ tasks' = IF over THEN Del(tasks, t)
                ELSE [tasks EXCEPT ![t] = [pc |-> r.pc, frame |-> r.frame]]
    /\ okDone' = IF r.pc = "end" THEN okDone \cup {t.n} ELSE okDone
    /\ returned' = IF r.h # 0
                   THEN Returned(GetDeviceAddress(AddedNotifs[t.n].props.Device), r.h)
                   ELSE returned
    /\ idem' = IF idem.stage \notin {1, 3} THEN IdemNone
               ELSE IF ~over THEN idem
               ELSE IF idem.stage = 1 THEN [stage |-> 2, n |-> idem.n, view |-> View(r.R)]
               ELSE [idem EXCEPT !.stage = 4]
    /\ UNCHANGED <<adapter, adapter_props, nAd, calls, emitted, cnt, ops, fails, ann,
                   live, replays, removals, scen>>

\* The bind a suspended onInterfacesAdded invocation awaits fails: the await
\* throws and the invocation ends (its promise rejects).
TaskBindFail(t) ==
    /\ fails < MaxFail
    /\ fails' = fails + 1
    /\ tasks' = Del(tasks, t)
    /\ idem' = IdemNone
    /\ UNCHANGED <<adapter, adapter_props, devices, _path, devObjs, ents, maps, nDev, nAd,
                   calls, emitted, cnt, ops, okDone, ann, live, replays, returned,
                   removals, scen>>

\* The transport delivers InterfacesRemoved(path, interfaces): lines 329-349.
DeliverRemoved(r) ==
    LET nt == RemovedNotifs[r]
        o == OnInterfaceRemoved(devices, adapter, nt.path, nt.ifaces)
        gone(a) == Device1 \in nt.ifaces /\ ann[a].st = "yes" /\ ann[a].path = nt.path
    IN
    /\ ops < MaxOps
    /\ ops' = ops + 1
    /\ devices' = o.devices
    /\ adapter' = o.adapter
    /\ emitted' = emitted \o o.events
    /\ ann' = [a \in KnownAddrs |->
                 IF gone(a)
                 THEN [ann[a] EXCEPT !.st = IF InFlight(a) THEN "dirty" ELSE "removed"]
                 ELSE ann[a]]
    /\ returned' = [a \in KnownAddrs |-> IF gone(a) THEN {} ELSE returned[a]]
    /\ live' = IF Device1 \in nt.ifaces THEN live \ {nt.path} ELSE live
    /\ removals' = removals \cup {r}
    /\ scen' = "off"
    /\ idem' = IdemNone
    /\ UNCHANGED <<adapter_props, _path, devObjs, ents, maps, nDev, nAd, tasks, calls,
                   cnt, fails, okDone, replays>>

\* Caller c calls getDevice(arg): lines 69-79 up to the first await.
StartGetDevice(c, arg) ==
    LET e == GetDeviceEnter(devices, arg)
        a == GetDeviceAddress(arg)
        other == {d \in Callers \ {c} :
                    calls[d].pc \in {"gd79", "gd81"} /\ calls[d].frame.address = a}
    IN
    /\ MayCall(c)
    /\ ops < MaxOps
    /\ ops' = ops + 1
    /\ calls' = [calls EXCEPT ![c] =
         [pc |-> IF e.k = "await" THEN "gd79" ELSE "done",
          fn |-> "getDevice", arg |-> arg, frame |-> e.frame, dev |-> Undef, path |-> Undef,
          res |-> IF e.k = "return" THEN Handle(e.h)
                  ELSE IF e.k = "throw" THEN Error(NotFoundDevice) ELSE Error(""),
          annAtStart |-> ann[a],
          onPath |-> e.k = "await",
          peer |-> other # {},
          binds |-> IF e.k = "await" THEN 1 ELSE 0,
          svcs |-> AttachedServices(a)]]
    /\ returned' = IF e.k = "return" THEN Returned(a, e.h) ELSE returned
    /\ idem' = IdemNone
    /\ UNCHANGED <<adapter, adapter_props, devices, _path, devObjs, ents, maps, nDev, nAd,
                   tasks, emitted, cnt, fails, okDone, ann, live, replays, removals, scen>>

\* Caller c calls getAdapter(arg): lines 46-59 up to the await.
StartGetAdapter(c, arg) ==
    LET e == GetAdapterEnter(adapter, arg)
        dev == GetAdapterDev(arg)
        other == {d \in Callers \ {c} : calls[d].pc = "ga59" /\ calls[d].dev = dev}
    IN
    /\ MayCall(c)
    /\ ops < MaxOps
    /\ ops' = ops + 1
    /\ calls' = [calls EXCEPT ![c] =
         [pc |-> IF e.k = "await" THEN "ga59" ELSE "done",
          fn |-> "getAdapter", arg |-> arg, frame |-> NoFrame, dev |-> dev, path |-> e.path,
          res |-> IF e.k = "return" THEN Handle(e.h) ELSE Error(""),
          annAtStart |-> NoAnn,
          onPath |-> FALSE,
          peer |-> other # {},
          binds |-> IF e.k = "await" THEN 1 ELSE 0,
          svcs |-> {}]]
    /\ idem' = IdemNone
    /\ UNCHANGED <<adapter, adapter_props, devices, _path, devObjs, ents, maps, nDev, nAd,
                   tasks, emitted, cnt, fails, okDone, ann, live, replays, returned,
                   removals, scen>>

\* The bind caller c's getDevice call awaits at line 79 succeeds: line 81.
GetDeviceBound79(c) ==
    /\ calls[c].pc = "gd79"
    /\ calls' = [calls EXCEPT ![c].pc = "gd81", ![c].binds = @ + 1]
    /\ idem' = IdemNone
    /\ UNCHANGED <<adapter, adapter_props, devices, _path, devObjs, ents, maps, nDev, nAd,
                   tasks, emitted, cnt, ops, fails, okDone, ann, live, replays, returned,
                   removals, scen>>

\* The bind caller c's getDevice call awaits at line 81 succeeds: lines 83-88.
GetDeviceBound81(c) ==
    LET i == GetDeviceInstall(Reg, calls[c].frame) IN
    /\ calls[c].pc = "gd81"
    /\ SetReg(i.R)
    /\ calls' = [calls EXCEPT ![c].pc = "done", ![c].res = Handle(i.h)]
    /\ returned' = Returned(calls[c].frame.address, i.h)
    /\ idem' = IdemNone
    /\ UNCHANGED <<adapter, adapter_props, nAd, tasks, emitted, cnt, ops, fails, okDone,
                   ann, live, replays, removals, scen>>

\* The bind caller c's getAdapter call awaits succeeds: lines 64-66.
GetAdapterBound(c) ==
    /\ calls[c].pc = "ga59"
    /\ adapter' = GetAdapterInstall(adapter, nAd, calls[c].dev)
    /\ nAd' = nAd + 1
    /\ calls' = [calls EXCEPT ![c].pc = "done", ![c].res = Handle(nAd + 1)]
    /\ idem' = IdemNone
    /\ UNCHANGED <<adapter_props, devices, _path, devObjs, ents, maps, nDev, tasks,
                   emitted, cnt, ops, fails, okDone, ann, live, replays, returned,
                   removals, scen>>

\* CallBindFail for a resolver that drops the index entry of the identifier
\* whose bind failed.
CallBindFailDropsEntry(c) ==
    /\ Suspended(c)
    /\ fails < MaxFail
    /\ fails' = fails + 1
    /\ calls' = [calls EXCEPT ![c].pc = "done",
                              ![c].res = IF calls[c].pc = "ga59"
                                         THEN Error(NotFoundAdapter)
                                         ELSE Error(BindError)]
    /\ devices' = IF calls[c].pc = "ga59" THEN devices
                  ELSE Del(devices, calls[c].frame.address)
    /\ adapter' = IF calls[c].pc = "ga59" THEN Del(adapter, calls[c].dev) ELSE adapter
    /\ idem' = IdemNone
    /\ UNCHANGED <<adapter_props, _path, devObjs, ents, maps, nDev, nAd,
                   tasks, emitted, cnt, ops, okDone, ann, live, replays, returned,
                   removals, scen>>

\* The bind caller c awaits fails: getDevice rethrows it (lines 79, 81),
\* getAdapter catches it and throws "Adapter not found" (lines 59-64).
CallBindFail(c) ==
    /\ Suspended(c)
    /\ fails < MaxFail
    /\ fails' = fails + 1
    /\ calls' = [calls EXCEPT ![c].pc = "done",
                              ![c].res = IF calls[c].pc = "ga59"
                                         THEN Error(NotFoundAdapter)
                                         ELSE Error(BindError)]
    /\ idem' = IdemNone
    /\ UNCHANGED <<adapter, adapter_props, devices, _path, devObjs, ents, maps, nDev, nAd,
                   tasks, emitted, cnt, ops, okDone, ann, live, replays, returned,
                   removals, scen>>

Next ==
    \/ \E n \in AddedNames : DeliverAdded(n)
    \/ \E t \in DOMAIN tasks : TaskBindOk(t)
    \/ \E t \in DOMAIN tasks : TaskBindFail(t)
    \/ \E r \in RemovedNames : DeliverRemoved(r)
    \/ \E c \in Callers, arg \in GetDeviceArgs : StartGetDevice(c, arg)
    \/ \E c \in Callers, arg \in GetAdapterArgs : StartGetAdapter(c, arg)
    \/ \E c \in Callers : GetDeviceBound79(c)
    \/ \E c \in Callers : GetDeviceBound81(c)
    \/ \E c \in Callers : GetAdapterBound(c)
    \/ \E c \in Callers : CallBindFail(c)

Spec == Init /\ [][Next]_vars

\* The add-notifications of one hierarchy, delivered once each in any order,
\* every bind succeeding, no caller.
NextOrder ==
    \/ \E n \in HierarchyNames : DeliverOnce(n)
    \/ \E t \in DOMAIN tasks : TaskBindOk(t)

SpecOrder == Init /\ [][NextOrder]_vars

\* Removals of every kind against two devices and one GATT hierarchy; getAdapter
\* calls fill the adapter index, the service handler's getDevice the address index.
NextRemoved ==
    \/ \E n \in RemovalAdded : DeliverAdded(n)
    \/ \E t \in DOMAIN tasks : TaskBindOk(t)
    \/ \E r \in RemovalRemoved : DeliverRemoved(r)
    \/ \E c \in Callers : StartGetAdapter(c, <<"hci0">>)
    \/ \E c \in Callers : GetAdapterBound(c)

SpecRemoved == Init /\ [][NextRemoved]_vars

\* ------------------------------------------------------------ observations
DoneGetDevice(c) == calls[c].pc = "done" /\ calls[c].fn = "getDevice"
DoneGetAdapter(c) == calls[c].pc = "done" /\ calls[c].fn = "getAdapter"

\* The device paths the notifications delivered so far name for address a.
DevicePathsOf(a) ==
    {AddedNotifs[n].path : n \in {x \in AddedNames :
        cnt[x] > 0 /\ Device1 \in AddedNotifs[x].ifaces /\ AddedNotifs[x].props.Address = a}}
    \cup
    {RemovedNotifs[r].path : r \in {x \in removals :
        /\ Device1 \in RemovedNotifs[x].ifaces
        /\ MatchDevice(RemovedNotifs[x].path).ok
        /\ Replace(MatchDevice(RemovedNotifs[x].path).g2, "_", ":") = a}}

\* Address a has been announced and removed at one path only.
SinglePath(a) == Cardinality(DevicePathsOf(a)) <= 1

\* The Device handle installed for address a holds a service su.
HasService(a, su) ==
    /\ a \in DOMAIN devices
    /\ devices[a].t = "obj"
    /\ su \in DOMAIN devObjs[devices[a].id].services

\* Entity e holds a characteristic cu / a descriptor du in its child map.
HasCharacteristic(e, cu) ==
    /\ ents[e].characteristics # NoMap
    /\ cu \in DOMAIN maps[ents[e].characteristics]

HasDescriptor(e, du) ==
    /\ ents[e].descriptors # NoMap
    /\ du \in DOMAIN maps[ents[e].descriptors]

\* Device a -> service su -> characteristic cu, through the handle's maps.
ServiceHoldsCharacteristic(a, su, cu) ==
    /\ HasService(a, su)
    /\ HasCharacteristic(devObjs[devices[a].id].services[su], cu)

\* The whole hierarchy of HierarchyNames, reachable from the address index.
FullHierarchy ==
    /\ ServiceHoldsCharacteristic(AddrA, "us", "uc")
    /\ LET sv == devObjs[devices[AddrA].id].services["us"]
           ch == maps[ents[sv].characteristics]["uc"]
       IN  HasDescriptor(ch, "ud")

\* ------------------------------------------------------------------ claims
\* C1  Two concurrent getDevice calls for one address, started while the index
\*     holds only the path: one bind sequence in all (the getInterface calls of
\*     lines 79 and 81, once), and both calls return the same handle.
C1_SingleFlightGetDevice ==
    \A c \in Callers : \A d \in Callers \ {c} :
        ( /\ DoneGetDevice(c) /\ DoneGetDevice(d)
          /\ calls[c].onPath /\ calls[d].onPath /\ calls[d].peer
          /\ calls[c].frame.address = calls[d].frame.address
          /\ calls[c].res.t = "handle" /\ calls[d].res.t = "handle" )
        => /\ calls[c].binds + calls[d].binds = 2
           /\ calls[c].res.id = calls[d].res.id

\* C2  Two concurrent getAdapter calls for one adapter id with no handle yet:
\*     both return the same Adapter, the one the adapter index holds.
C2_RacingGetAdapter ==
    \A c \in Callers : \A d \in Callers \ {c} :
        ( /\ DoneGetAdapter(c) /\ DoneGetAdapter(d)
          /\ calls[d].peer
          /\ calls[c].dev = calls[d].dev
          /\ calls[c].res.t = "handle" /\ calls[d].res.t = "handle" )
        => /\ calls[c].res.id = calls[d].res.id
           /\ calls[c].dev \in DOMAIN adapter
           /\ adapter[calls[c].dev] = ObjEntry(calls[c].res.id)

\* C3  Device lifecycle, for a device announced at one path: a getDevice call
\*     made while its address is announced returns a handle unless a bind fails;
\*     one made for an address never announced, or removed (with no resolution
\*     of it suspended at the removal) and not announced again, fails with
\*     "Device not found".
C3_DeviceLifecycle ==
    \A c \in Callers :
        (DoneGetDevice(c) /\ SinglePath(GetDeviceAddress(calls[c].arg)))
        => /\ (calls[c].annAtStart.st = "yes" /\ calls[c].res.err # BindError)
                => calls[c].res.t = "handle"
           /\ calls[c].annAtStart.st \in {"never", "removed"}
                => calls[c].res = Error(NotFoundDevice)

\* C3 witness: one call answered with a handle while the address was announced,
\*     another answered "Device not found" after its removal.
C3_Witness ==
    \E c \in Callers : \E d \in Callers :
        /\ DoneGetDevice(c) /\ calls[c].annAtStart.st = "yes" /\ calls[c].res.t = "handle"
        /\ DoneGetDevice(d) /\ calls[d].annAtStart.st = "removed"
        /\ calls[d].res = Error(NotFoundDevice)
        /\ GetDeviceAddress(calls[c].arg) = GetDeviceAddress(calls[d].arg)
        /\ SinglePath(GetDeviceAddress(calls[c].arg))

\* C4  After service-added (its device not announced yet), device-added and
\*     characteristic-added, in this order, with every handler finished and no
\*     bind failed: the device handle's service map holds the service and the
\*     service's characteristic map holds the characteristic.
C4_OrphanedService ==
    (scen = "sdc" /\ DOMAIN tasks = {} /\ fails = 0)
    => ServiceHoldsCharacteristic(AddrA, "us", "uc")

\* C5  Whatever the order of the five add-notifications of one hierarchy, once
\*     all handlers have finished the registry holds the full hierarchy (the
\*     state the parent-first order ends in).
C5_OutOfOrderConvergence ==
    ((\A n \in HierarchyNames : cnt[n] = 1) /\ DOMAIN tasks = {}) => FullHierarchy

\* C6  When a handler of a GattService1-added notification and a handler of a
\*     GattCharacteristic1-added notification for that service have both run to
\*     their end, in either order and however interleaved, the entity stored at
\*     the service path is a Service whose characteristic map holds the
\*     characteristic built for that notification.
C6_NoLossUnderOrphaning ==
    \A sn \in AddedNames : \A cn \in AddedNames :
        ( /\ GattService1 \in AddedNotifs[sn].ifaces
          /\ GattCharacteristic1 \in AddedNotifs[cn].ifaces
          /\ AddedNotifs[cn].props.Service = AddedNotifs[sn].path
          /\ sn \in okDone /\ cn \in okDone )
        => /\ AddedNotifs[sn].path \in DOMAIN _path
           /\ ents[_path[AddedNotifs[sn].path]].kind = "Service"
           /\ HasCharacteristic(_path[AddedNotifs[sn].path], AddedNotifs[cn].props.UUID)
           /\ maps[ents[_path[AddedNotifs[sn].path]].characteristics]
                  [AddedNotifs[cn].props.UUID].by = cn

\* C6 witness: the characteristic came first (a placeholder was made for the
\*     service path) and both handlers have run to their end.
C6_Witness ==
    /\ "svc1" \in okDone /\ "chr1" \in okDone
    /\ \E e \in DOMAIN ents : e.role = "phService"
    /\ ents[_path[PathSvc1]].kind = "Service"

\* C7  No 'device' event is emitted for a device path that is registered
\*     already: one event per creation of the path.
C7_DeviceEventOncePerCreation == replays = 0

\* C8  While a device (announced at one path) stays announced, every getDevice
\*     call that succeeds returns the same handle.
C8_HandleIdentity ==
    \A a \in KnownAddrs : SinglePath(a) => Cardinality(returned[a]) <= 1

\* C9  After an address announced at one path is announced again at another
\*     path, a getDevice call for it does not fail with "Device not found"
\*     (also after a removal at the old path), the handle it returns is bound to
\*     the new path, and a call naming the old path fails.
C9_AddressStability ==
    \A c \in Callers :
        ( /\ DoneGetDevice(c)
          /\ calls[c].annAtStart.st = "yes"
          /\ calls[c].annAtStart.old # Undef )
        => /\ calls[c].res.err # NotFoundDevice
           /\ calls[c].res.t = "handle"
                => devObjs[calls[c].res.id].iface = calls[c].annAtStart.path
           /\ calls[c].arg = calls[c].annAtStart.old => calls[c].res.t = "error"

\* C10 A notification applied twice in succession, alone and from a quiescent
\*     state, leaves the address index, the path index and every child map as
\*     they were after the first application.
C10_AddedIdempotent == idem.stage = 4 => View(Reg) = idem.view

\* C10 witness: a GattService1-added notification applied twice to a registry
\*     that held a characteristic for that service already.
C10_Witness ==
    /\ idem.stage = 4
    /\ idem.n = "svc1"
    /\ HasService(AddrA, "us")
    /\ HasCharacteristic(_path[PathSvc1], "uc")

\* C11 A service attached to a device's service map stays reachable: a getDevice
\*     call for the device's address, made after the attachment (the device
\*     announced at one path, nothing removed), returns a handle whose service
\*     map holds the service, also after a repeated Device1-added notification.
C11_NoEntityLost ==
    \A c \in Callers :
        ( /\ DoneGetDevice(c)
          /\ calls[c].res.t = "handle"
          /\ SinglePath(GetDeviceAddress(calls[c].arg))
          /\ removals = {} )
        => \A u \in calls[c].svcs : u \in DOMAIN devObjs[calls[c].res.id].services

\* C12 getDevice gives a point-in-time answer: a call made when the address
\*     index holds no entry for the normalised address is over at once with
\*     "Device not found", has made no bind call, and leaves the address index,
\*     the adapter index and the path index as they were.
C12_PointInTimeNotFound ==
    [][ \A c \in Callers : \A arg \in GetDeviceArgs :
          (StartGetDevice(c, arg) /\ GetDeviceAddress(arg) \notin DOMAIN devices)
          => /\ calls'[c].pc = "done"
             /\ calls'[c].res = Error(NotFoundDevice)
             /\ calls'[c].binds = 0
             /\ devices' = devices
             /\ adapter' = adapter
             /\ _path' = _path ]_vars

\* C12 witness: a call failed with "Device not found" before the first
\*     announcement of its address; the announcement came later and the call
\*     has not waited for it.
C12_Witness ==
    \E c \in Callers :
        /\ DoneGetDevice(c)
        /\ calls[c].annAtStart.st = "never"
        /\ calls[c].res = Error(NotFoundDevice)
        /\ calls[c].binds = 0
        /\ ann[GetDeviceAddress(calls[c].arg)].st = "yes"

\* C13 A getAdapter call for an adapter id that no Adapter1-added notification
\*     delivered so far has named fails with "Adapter not found", whatever its
\*     bind returns.
C13_UnregisteredAdapterNotFound ==
    \A c \in Callers :
        ( /\ DoneGetAdapter(c)
          /\ \A n \in AddedNames :
                ( /\ Adapter1 \in AddedNotifs[n].ifaces
                  /\ GetAdapterDev(AddedNotifs[n].path) = calls[c].dev )
                => cnt[n] = 0 )
        => calls[c].res = Error(NotFoundAdapter)

\* The identifier a resolver call is about: the normalised address, the adapter id.
CallKey(c) ==
    IF calls[c].fn = "getDevice" THEN GetDeviceAddress(calls[c].arg) ELSE calls[c].dev

\* Caller c's call ended because a bind of its own failed.
BindFailed(c) ==
    /\ calls[c].pc = "done"
    /\ \/ calls[c].fn = "getDevice" /\ calls[c].res = Error(BindError)
       \/ calls[c].fn = "getAdapter" /\ calls[c].res = Error(NotFoundAdapter)

\* C14 A failed bind does not corrupt the registry: no step of a getAdapter or
\*     getDevice call that does not return a handle (its start, its first bind,
\*     the failure of a bind) changes the adapter index, the address index or
\*     the path index; the call whose bind failed ends with an error; and a
\*     later call for the same identifier (nothing removed meanwhile) whose
\*     binds succeed returns a handle.
C14_BindFailureKeepsRegistry ==
    /\ [][ \A c \in Callers :
             (calls'[c] # calls[c] /\ calls'[c].res.t # "handle")
             => (devices' = devices /\ adapter' = adapter /\ _path' = _path) ]_vars
    /\ [][ \A c \in Callers :
             (Suspended(c) /\ calls'[c] # calls[c] /\ fails' # fails)
             => (calls'[c].pc = "done" /\ calls'[c].res.t = "error") ]_vars
    /\ []( ( /\ BindFailed("c1")
             /\ calls["c2"].pc = "done"
             /\ calls["c2"].fn = calls["c1"].fn
             /\ CallKey("c2") = CallKey("c1")
             /\ fails = 1
             /\ removals = {} )
           => calls["c2"].res.t = "handle" )

\* C14 witness: the first call for an address failed on a bind, the second
\*     call for it returned a handle.
C14_Witness ==
    /\ BindFailed("c1")
    /\ calls["c1"].fn = "getDevice"
    /\ DoneGetDevice("c2")
    /\ CallKey("c2") = CallKey("c1")
    /\ calls["c2"].res.t = "handle"
    /\ CallKey("c1") \in DOMAIN devices
    /\ devices[CallKey("c1")] = ObjEntry(calls["c2"].res.id)

\* An entity built for the remote object at path p.
BuiltFor(e, p) ==
    /\ e.role \in {"Service", "Characteristic", "Descriptor"}
    /\ AddedNotifs[e.by].path = p

\* The entities the registry holds: in the path index, in a child map, in a
\* Device's service map.
Held(R) ==
    {R._path[q] : q \in DOMAIN R._path}
    \cup UNION {{R.maps[m][u] : u \in DOMAIN R.maps[m]} : m \in DOMAIN R.maps}
    \cup UNION {{R.devObjs[h].services[u] : u \in DOMAIN R.devObjs[h].services} :
                 h \in DOMAIN R.devObjs}

\* A removal that names the Device capability at a path that is not a device
\* path, or the Adapter capability at a path that is not an adapter path.
ViolatingRemoval(r) ==
    \/ Device1 \in RemovedNotifs[r].ifaces /\ ~MatchDevice(RemovedNotifs[r].path).ok
    \/ Adapter1 \in RemovedNotifs[r].ifaces /\ ~MatchAdapter(RemovedNotifs[r].path).ok

\* C15 A protocol-violating removal is reported, not applied: handling it emits
\*     an 'error' event and removes no entry of the adapter index or the address
\*     index.
C15_ViolatingRemovalReported ==
    [][ \A r \in RemovalRemoved :
          (ViolatingRemoval(r) /\ DeliverRemoved(r))
          => /\ Len(emitted') = Len(emitted) + 1
             /\ emitted'[Len(emitted')].name = "error"
             /\ adapter' = adapter
             /\ devices' = devices ]_vars

\* The notifications of the 'device' events emitted, in the order of emission.
RECURSIVE DevEvents(_)
DevEvents(em) ==
    IF em = <<>> THEN <<>>
    ELSE IF Head(em).name = "device"
    THEN <<Head(em).props>> \o DevEvents(Tail(em))
    ELSE DevEvents(Tail(em))

\* The Device1-added notifications.
DeviceNames == {n \in DOMAIN AddedNotifs : Device1 \in AddedNotifs[n].ifaces}

\* C16 'device' events are emitted in the order of delivery: the delivery of a
\*     Device1-added notification puts its event after all events emitted so
\*     far, and no other step (a bind that resolves or fails, a removal, a
\*     resolver call) emits or moves a 'device' event.
C16_DeviceEventsInOrder ==
    [][ /\ \A n \in DeviceNames :
             cnt'[n] # cnt[n] => DevEvents(emitted') = Append(DevEvents(emitted), n)
        /\ (\A n \in DeviceNames : cnt'[n] = cnt[n])
             => DevEvents(emitted') = DevEvents(emitted) ]_vars

\* C16 witness: the events of two announcements, in the order of their delivery,
\*     the second one emitted while the bind of another handler was pending.
C16_Witness ==
    /\ DevEvents(emitted) = <<"dev1", "dev2">>
    /\ cnt["dev1"] = 1 /\ cnt["dev2"] = 1
    /\ \E t \in DOMAIN tasks : t.n = "svc1"

\* A removal that names a GATT capability.
ChildRemoval(r) ==
    RemovedNotifs[r].ifaces \cap {GattService1, GattCharacteristic1, GattDescriptor1} # {}

\* C17 Removal of a child entity: once InterfacesRemoved naming the GATT
\*     capability at path P has been handled, no entity built for P is stored in
\*     the path index, in a child map or in a Device's service map.
C17_ChildRemoved ==
    [][ \A r \in RemovalRemoved :
          (ChildRemoval(r) /\ DeliverRemoved(r))
          => \A e \in Held(Reg)' : ~BuiltFor(e, RemovedNotifs[r].path) ]_vars

\* A removal that names the Device capability, and only it, at a device path.
DeviceRemoval(r) ==
    RemovedNotifs[r].ifaces = {Device1} /\ MatchDevice(RemovedNotifs[r].path).ok

\* The address a device path encodes.
AddressOfPath(p) == Replace(MatchDevice(p).g2, "_", ":")

\* C18 Removal is not cascaded: handling the removal of the Device capability at
\*     a device path removes the entry of that path's address from the address
\*     index and nothing else: every other address keeps its entry, and the
\*     path index, the Service / Characteristic / Descriptor entities, their
\*     child maps, the Device objects and the adapter index stay as they were.
C18_RemovalNotCascaded ==
    [][ \A r \in RemovalRemoved :
          (DeviceRemoval(r) /\ DeliverRemoved(r))
          => /\ devices' = Del(devices, AddressOfPath(RemovedNotifs[r].path))
             /\ _path' = _path
             /\ ents' = ents
             /\ maps' = maps
             /\ devObjs' = devObjs
             /\ adapter' = adapter ]_vars

\* C18 witness: the first device, holding a service, has been removed: its
\*     address has no entry, the second device keeps its entry, the service is
\*     still in the path index and in the service map of the removed handle.
C18_Witness ==
    /\ "rdev1" \in removals
    /\ AddrA \notin DOMAIN devices
    /\ AddrB \in DOMAIN devices
    /\ PathSvc1 \in DOMAIN _path
    /\ ents[_path[PathSvc1]].kind = "Service"
    /\ \E h \in DOMAIN devObjs : "us" \in DOMAIN devObjs[h].services

\* C19 Notifications are reconciled one at a time: when a GattService1-added
\*     notification has been delivered twice and both handlers have attached
\*     their Service, the Service in the path index and in the service map of
\*     the device's handle is the one built for the later delivery.
C19_OneAtATime ==
    \A n \in AddedNames :
        ( /\ GattService1 \in AddedNotifs[n].ifaces
          /\ cnt[n] = 2
          /\ Oid(n, 1, "Service") \in DOMAIN ents
          /\ Oid(n, 2, "Service") \in DOMAIN ents
          /\ \A t \in DOMAIN tasks : t.n # n )
        => /\ _path[AddedNotifs[n].path] = Oid(n, 2, "Service")
           /\ \A a \in DOMAIN devices :
                HasService(a, AddedNotifs[n].props.UUID)
                => devObjs[devices[a].id].services[AddedNotifs[n].props.UUID]
                      = Oid(n, 2, "Service")

\* C20 A resolution in flight does not resurrect a removed device: when the
\*     removal of an address's Device capability was handled while a getDevice
\*     resolution of that address was suspended on its binds, then, once no such
\*     resolution is suspended any more, the address index holds no entry for
\*     the address, and a getDevice call started after the removal (the address
\*     not announced again) fails with "Device not found".
C20_NoResurrection ==
    /\ \A a \in KnownAddrs :
          (ann[a].st = "dirty" /\ ~InFlight(a)) => a \notin DOMAIN devices
    /\ \A c \in Callers :
          (DoneGetDevice(c) /\ calls[c].annAtStart.st = "dirty")
          => calls[c].res = Error(NotFoundDevice)

====
